---- MODULE Spec2Model ----
(***************************************************************************)
(* Rosenbridge bridge simulation: Watchers report cross-chain events,      *)
(* Guards verify them, and an event is finalized once the number of        *)
(* positive Guard signatures reaches the guard threshold.                  *)
(*                                                                         *)
(* Modelled from src/src/{config,datatypes,blockchain,participants,        *)
(* simulation,main}.py.  src/sim.py is the same program in one file.       *)
(*                                                                         *)
(* Python values: a dict whose keys are iterated is an ordered dict        *)
(* [keys, val]; a dict that is only looked up is a function; a set is a    *)
(* set.  True / False / None are the strings "True" / "False" / "None",    *)
(* because Guard.verify_event returns None (not False) for a missing       *)
(* event.  A ratio is a number of hundredths, so int(n * ratio) is         *)
(* (n * ratio) \div 100.  An event id is <<prefix, uuid>> with prefix ""   *)
(* or "fake-"; uuid4 values are drawn fresh from a counter.                *)
(***************************************************************************)
EXTENDS Integers, Sequences, FiniteSets, TLC

\* ---------------------------------------------------------------- bounds
\* Watchers and Guards together
MaxActors == 3
MaxSteps == 2
MaxEvents == 2

\* ------------------------------------------------------- input universes
AllChainIds == {"ChainA", "ChainB"}
\* config.CHAIN_IDS: no chain, one chain, two chains
ChainIdLists == {<<>>, <<"ChainA">>, <<"ChainA", "ChainB">>}
\* ratios in hundredths
MaliciousRatios == {0, 50, 100}
ThresholdRatios == {67, 100}
\* random.randint(500, 5000): the two ends of the range
FakeAmounts == {500, 5000}
\* random.randint(10, 1000): one value of the range
ValidAmounts == {10}
\* random.random(), in hundredths: one value below 0.5 and one above
RandomValues == {25, 75}
\* 0.5, in hundredths
DenyProbability == 50

VARIABLES
    config,                     \* the config module
    num_watchers, num_guards, watcher_malicious_ratio, guard_malicious_ratio,
    guard_threshold,
    blockchains,                \* chain_id -> events (event_id -> Event)
    watchers, guards,           \* lists
    pending_reports,            \* ordered dict event_id -> list of ReportedEvent
    guard_signatures,           \* ordered dict event_id -> (guard_id -> vote)
    finalized_events, processed_event_ids,
    event_first_reported_step,  \* event_id -> step_num
    confirmation_latencies,     \* list
    stats,
    uuid_count,                 \* number of uuid4 values drawn so far
    step_num,                   \* argument of the last run_simulation_step (0: none yet)
    new_reports_this_step,      \* the reports collected by the last step
    verify_calls,               \* the verify_event calls made by the last step, in order
    pc, i, j,                   \* position of the caller (main.py: loop indices)
    call,                       \* the last call made on one object alone, with its result
    printed                     \* what report_results printed ("None": nothing yet)

simvars == <<num_watchers, num_guards, watcher_malicious_ratio, guard_malicious_ratio,
             guard_threshold, blockchains, watchers, guards, pending_reports,
             guard_signatures, finalized_events, processed_event_ids,
             event_first_reported_step, confirmation_latencies, stats, uuid_count,
             step_num, new_reports_this_step, verify_calls>>
iovars == <<call, printed>>
vars == <<config, simvars, pc, i, j, iovars>>

\* ------------------------------------------------------- Python helpers
EmptyFn == [x \in {} |-> x]
EmptyDict == [keys |-> <<>>, val |-> EmptyFn]
DictHas(d, k) == k \in DOMAIN d.val
DictSet(d, k, v) ==
    [keys |-> IF k \in DOMAIN d.val THEN d.keys ELSE Append(d.keys, k),
     val |-> (k :> v) @@ d.val]
DictDel(d, k) ==
    [keys |-> SelectSeq(d.keys, LAMBDA x : x # k),
     val |-> [x \in (DOMAIN d.val) \ {k} |-> d.val[x]]]
Range(s) == {s[k] : k \in DOMAIN s}
Max(a, b) == IF a >= b THEN a ELSE b
\* int(n * ratio), ratio in hundredths
IntTrunc(n, ratio) == (n * ratio) \div 100
\* all orders in which Python may iterate a set
Orders(S) == {s \in [1..Cardinality(S) -> S] : Range(s) = S}
\* random.sample(range(n), k): the indices drawn
Samples(n, k) == {S \in SUBSET (0..(n - 1)) : Cardinality(S) = k}
\* str.startswith("fake-")
StartsWithFake(event_id) == event_id[1] = "fake-"
\* dict.get('amount', 0)
GetAmount(data) == IF "amount" \in DOMAIN data THEN data.amount ELSE 0

\* ------------------------------------------------------------ datatypes
Event(event_id, source_chain_id, target_chain_id, data, is_valid) ==
    [event_id |-> event_id, source_chain_id |-> source_chain_id,
     target_chain_id |-> target_chain_id, data |-> data, is_valid |-> is_valid]
ReportedEvent(event_id, source_chain_id, target_chain_id, data, reporter_id) ==
    [event_id |-> event_id, source_chain_id |-> source_chain_id,
     target_chain_id |-> target_chain_id, data |-> data, reporter_id |-> reporter_id]

\* ----------------------------------------------------------- blockchain
\* SimpleBlockchain.__init__
SimpleBlockchain(chain_id) == [chain_id |-> chain_id, events |-> EmptyFn]
\* faulty variant: the store is replaced by the new event alone
add_event_Replace(chain, uuid, target_chain_id, data) ==
    LET event_id == <<"", uuid>>
        new_event == Event(event_id, chain.chain_id, target_chain_id, data, TRUE)
    IN [chain |-> [chain EXCEPT !.events = (event_id :> new_event)],
        event |-> new_event]
\* SimpleBlockchain.add_event, with the uuid4 drawn
add_event(chain, uuid, target_chain_id, data) ==
    LET event_id == <<"", uuid>>
        new_event == Event(event_id, chain.chain_id, target_chain_id, data, TRUE)
    IN [chain |-> [chain EXCEPT !.events = (event_id :> new_event) @@ @],
        event |-> new_event]
\* SimpleBlockchain.get_event: the event or None
get_event(chain, event_id) ==
    IF event_id \in DOMAIN chain.events THEN chain.events[event_id] ELSE "None"
\* SimpleBlockchain.get_all_event_ids
get_all_event_ids(chain) == DOMAIN chain.events

\* ------------------------------------------------------------- __init__
\* faulty variant: the threshold is not raised to 1
GuardThreshold_Unclamped(n, ratio) == IntTrunc(n, ratio)

\* line 20
GuardThreshold(n, ratio) == Max(1, IntTrunc(n, ratio))

InitStats == [valid_events_created |-> 0, fabricated_events_reported |-> 0,
              valid_events_finalized |-> 0, fabricated_events_finalized |-> 0,
              attack_impact_value |-> 0]

\* RosenbridgeSimulation.__init__ under a given config module
Constructed ==
    /\ num_watchers = config.NUM_WATCHERS
    /\ num_guards = config.NUM_GUARDS
    /\ watcher_malicious_ratio = config.WATCHER_MALICIOUS_RATIO
    /\ guard_malicious_ratio = config.GUARD_MALICIOUS_RATIO
    /\ guard_threshold = GuardThreshold(config.NUM_GUARDS, config.GUARD_THRESHOLD_RATIO)
    /\ blockchains = EmptyFn
    /\ watchers = <<>>
    /\ guards = <<>>
    /\ pending_reports = EmptyDict
    /\ guard_signatures = EmptyDict
    /\ finalized_events = {}
    /\ processed_event_ids = {}
    /\ event_first_reported_step = EmptyFn
    /\ confirmation_latencies = <<>>
    /\ stats = InitStats
    /\ uuid_count = 0
    /\ step_num = 0
    /\ new_reports_this_step = <<>>
    /\ verify_calls = <<>>
    /\ pc = "constructed"
    /\ i = 0
    /\ j = 0
    /\ call = [op |-> "None"]
    /\ printed = "None"

Configs(steps, events) ==
  {c \in
    [NUM_WATCHERS : 0..MaxActors, NUM_GUARDS : 0..MaxActors,
     WATCHER_MALICIOUS_RATIO : MaliciousRatios, GUARD_MALICIOUS_RATIO : MaliciousRatios,
     GUARD_THRESHOLD_RATIO : ThresholdRatios, NUM_SIMULATION_STEPS : steps,
     EVENTS_PER_STEP : events, CHAIN_IDS : ChainIdLists] :
        c.NUM_WATCHERS + c.NUM_GUARDS <= MaxActors}

\* a RosenbridgeSimulation driven by any caller
Init ==
    /\ config \in Configs({0}, {0})
    /\ Constructed

\* ---------------------------------------------------------------- setup
Watcher(watcher_id, monitored_chain, is_malicious) ==
    [watcher_id |-> watcher_id, monitored_chain |-> monitored_chain,
     is_malicious |-> is_malicious, seen_event_ids |-> {}]
Guard(guard_id, is_malicious) == [guard_id |-> guard_id, is_malicious |-> is_malicious]

\* RosenbridgeSimulation.setup(chain_ids)
Setup ==
    /\ pc = "constructed"
    /\ pc' = "ready"
    /\ LET chain_ids == config.CHAIN_IDS
           new_blockchains == [c \in Range(chain_ids) |-> SimpleBlockchain(c)]
       IN /\ blockchains' = new_blockchains
          /\ IF DOMAIN new_blockchains = {}
             THEN UNCHANGED <<watchers, guards>>
             ELSE /\ \E malicious_indices_w \in
                         Samples(num_watchers, IntTrunc(num_watchers, watcher_malicious_ratio)),
                       chain_of \in [0..(num_watchers - 1) -> DOMAIN new_blockchains] :
                       watchers' = [k \in 1..num_watchers |->
                                      Watcher(<<"W", k - 1>>, chain_of[k - 1],
                                              (k - 1) \in malicious_indices_w)]
                  /\ \E malicious_indices_g \in
                         Samples(num_guards, IntTrunc(num_guards, guard_malicious_ratio)) :
                       guards' = [k \in 1..num_guards |->
                                    Guard(<<"G", k - 1>>, (k - 1) \in malicious_indices_g)]
    /\ UNCHANGED <<config, num_watchers, num_guards, watcher_malicious_ratio,
                   guard_malicious_ratio, guard_threshold, pending_reports,
                   guard_signatures, finalized_events, processed_event_ids,
                   event_first_reported_step, confirmation_latencies, stats,
                   uuid_count, step_num, new_reports_this_step, verify_calls, i, j,
                   iovars>>

\* -------------------------------------------------------- trigger_event
\* faulty variant: the event is stored but not counted
trigger_event_Uncounted(source_chain_id, target_chain_id, data) ==
    IF source_chain_id \in DOMAIN blockchains
    THEN LET added == add_event(blockchains[source_chain_id], uuid_count + 1,
                                target_chain_id, data)
         IN /\ blockchains' = [blockchains EXCEPT ![source_chain_id] = added.chain]
            /\ uuid_count' = uuid_count + 1
            /\ stats' = stats
    ELSE UNCHANGED <<blockchains, uuid_count, stats>>

\* RosenbridgeSimulation.trigger_event(source_chain_id, target_chain_id, data)
trigger_event(source_chain_id, target_chain_id, data) ==
    IF source_chain_id \in DOMAIN blockchains
    THEN LET added == add_event(blockchains[source_chain_id], uuid_count + 1,
                                target_chain_id, data)
         IN /\ blockchains' = [blockchains EXCEPT ![source_chain_id] = added.chain]
            /\ uuid_count' = uuid_count + 1
            /\ stats' = [stats EXCEPT !.valid_events_created = @ + 1]
    ELSE UNCHANGED <<blockchains, uuid_count, stats>>

\* ------------------------------------------------- Watcher.monitor_and_report
\* the ids an honest Watcher has not reported yet
NewEventIds(watcher, chains) ==
    get_all_event_ids(chains[watcher.monitored_chain]) \ watcher.seen_event_ids

\* honest branch; order is the order in which the set new_event_ids is iterated
HonestReports(watcher, chains, order) ==
    [k \in 1..Len(order) |->
        LET event == get_event(chains[watcher.monitored_chain], order[k])
        IN ReportedEvent(event.event_id, event.source_chain_id, event.target_chain_id,
                         event.data, watcher.watcher_id)]

\* faulty variant: every fabricated report has the same id
FakeReport_FixedId(watcher, chains, uuid, amount) ==
    ReportedEvent(<<"fake-", 0>>, chains[watcher.monitored_chain].chain_id,
                  "target-chain-malicious",
                  [amount |-> amount, recipient |-> "attacker_addr"],
                  watcher.watcher_id)

\* faulty variant: the fabricated id carries no marker
FakeReport_Unmarked(watcher, chains, uuid, amount) ==
    ReportedEvent(<<"", uuid>>, chains[watcher.monitored_chain].chain_id,
                  "target-chain-malicious",
                  [amount |-> amount, recipient |-> "attacker_addr"],
                  watcher.watcher_id)

\* malicious branch; uuid is the uuid4 drawn and amount the random.randint drawn
FakeReport(watcher, chains, uuid, amount) ==
    ReportedEvent(<<"fake-", uuid>>, chains[watcher.monitored_chain].chain_id,
                  "target-chain-malicious",
                  [amount |-> amount, recipient |-> "attacker_addr"],
                  watcher.watcher_id)

\* faulty variant: an honest Watcher does not remember what it reported
monitor_and_report_NoMemory(watcher, chains, order, uuid, amount) ==
    IF ~watcher.is_malicious
    THEN [reports |-> HonestReports(watcher, chains, order),
          watcher |-> watcher,
          uuids |-> 0]
    ELSE [reports |-> <<FakeReport(watcher, chains, uuid, amount)>>,
          watcher |-> watcher,
          uuids |-> 1]

\* Watcher.monitor_and_report: the reports, the Watcher afterwards, the uuids drawn
monitor_and_report(watcher, chains, order, uuid, amount) ==
    IF ~watcher.is_malicious
    THEN [reports |-> HonestReports(watcher, chains, order),
          watcher |-> [watcher EXCEPT !.seen_event_ids = @ \cup Range(order)],
          uuids |-> 0]
    ELSE [reports |-> <<FakeReport(watcher, chains, uuid, amount)>>,
          watcher |-> watcher,
          uuids |-> 1]

\* ------------------------------------------------------ Guard.verify_event
\* faulty variant: the whole records are compared (an Event never equals a ReportedEvent)
IsActuallyValid_WholeRecord(chain, reported_event) ==
    IF reported_event.event_id \notin DOMAIN chain.events THEN "None"
    ELSE IF chain.events[reported_event.event_id] = reported_event
         THEN "True" ELSE "False"

\* "actual_event and actual_event.data == reported_event.data"
IsActuallyValid(chain, reported_event) ==
    IF reported_event.event_id \notin DOMAIN chain.events THEN "None"
    ELSE IF chain.events[reported_event.event_id].data = reported_event.data
         THEN "True" ELSE "False"

\* faulty variant: a malicious Guard that does not collude on fabricated events
MaliciousVote_NoCollusion(is_fabricated, rnd, is_actually_valid) ==
    IF rnd < DenyProbability THEN "False" ELSE is_actually_valid

\* faulty variant: a malicious Guard that does not deny approves
MaliciousVote_Approve(is_fabricated, rnd, is_actually_valid) ==
    IF is_fabricated THEN "True"
    ELSE IF rnd < DenyProbability THEN "False" ELSE "True"

\* the malicious branch of verify_event; rnd is the random.random() drawn
MaliciousVote(is_fabricated, rnd, is_actually_valid) ==
    IF is_fabricated THEN "True"
    ELSE IF rnd < DenyProbability THEN "False" ELSE is_actually_valid

\* faulty variant: a malicious Guard approves a fraud-marked report before the
\* source chain is looked up
verify_event_ColludeFirst(guard, known_blockchains, reported_event, rnd) ==
    IF guard.is_malicious /\ StartsWithFake(reported_event.event_id)
    THEN "True"
    ELSE IF reported_event.source_chain_id \notin DOMAIN known_blockchains
    THEN "False"
    ELSE LET is_actually_valid ==
                 IsActuallyValid(known_blockchains[reported_event.source_chain_id],
                                 reported_event)
         IN IF ~guard.is_malicious
            THEN is_actually_valid
            ELSE MaliciousVote(StartsWithFake(reported_event.event_id), rnd,
                               is_actually_valid)

\* Guard.verify_event(reported_event)
verify_event(guard, known_blockchains, reported_event, rnd) ==
    IF reported_event.source_chain_id \notin DOMAIN known_blockchains
    THEN "False"
    ELSE LET is_actually_valid ==
                 IsActuallyValid(known_blockchains[reported_event.source_chain_id],
                                 reported_event)
         IN IF ~guard.is_malicious
            THEN is_actually_valid
            ELSE MaliciousVote(StartsWithFake(reported_event.event_id), rnd,
                               is_actually_valid)

\* verify_event draws random.random() exactly in this case
DrawsRandom(guard, known_blockchains, reported_event) ==
    /\ reported_event.source_chain_id \in DOMAIN known_blockchains
    /\ guard.is_malicious
    /\ ~StartsWithFake(reported_event.event_id)

\* ------------------------------------------ run_simulation_step, phase 1
\* "for watcher in self.watchers": Watchers k..n report in list order
RECURSIVE ReportAll(_, _, _, _, _, _)
ReportAll(k, ws, chains, uuid, orders, amounts) ==
    IF k > Len(ws) THEN [reports |-> <<>>, watchers |-> ws, uuid_count |-> uuid]
    ELSE LET r == monitor_and_report(ws[k], chains, orders[k], uuid + 1, amounts[k])
             rest == ReportAll(k + 1, [ws EXCEPT ![k] = r.watcher], chains,
                               uuid + r.uuids, orders, amounts)
         IN [rest EXCEPT !.reports = r.reports \o @]

\* line 98
IsNewlyReported(event_id, pending, finalized, processed) ==
    /\ ~DictHas(pending, event_id)
    /\ event_id \notin finalized
    /\ event_id \notin processed

\* faulty variant: every first report is counted as fabricated
CollateOne_CountAll(report, step, acc, finalized, processed) ==
    LET event_id == report.event_id
        first == IsNewlyReported(event_id, acc.pending_reports, finalized, processed)
                 /\ event_id \notin DOMAIN acc.event_first_reported_step
        old == IF DictHas(acc.pending_reports, event_id)
               THEN acc.pending_reports.val[event_id] ELSE <<>>
    IN [pending_reports |-> DictSet(acc.pending_reports, event_id, Append(old, report)),
        event_first_reported_step |->
            IF first THEN (event_id :> step) @@ acc.event_first_reported_step
            ELSE acc.event_first_reported_step,
        fabricated_events_reported |->
            IF first
            THEN acc.fabricated_events_reported + 1
            ELSE acc.fabricated_events_reported]

\* faulty variant: the first report is dated one step late
CollateOne_StepAhead(report, step, acc, finalized, processed) ==
    LET event_id == report.event_id
        first == IsNewlyReported(event_id, acc.pending_reports, finalized, processed)
                 /\ event_id \notin DOMAIN acc.event_first_reported_step
        old == IF DictHas(acc.pending_reports, event_id)
               THEN acc.pending_reports.val[event_id] ELSE <<>>
    IN [pending_reports |-> DictSet(acc.pending_reports, event_id, Append(old, report)),
        event_first_reported_step |->
            IF first THEN (event_id :> step + 1) @@ acc.event_first_reported_step
            ELSE acc.event_first_reported_step,
        fabricated_events_reported |->
            IF first /\ StartsWithFake(event_id)
            THEN acc.fabricated_events_reported + 1
            ELSE acc.fabricated_events_reported]

\* one iteration of "for report in new_reports_this_step"
CollateOne(report, step, acc, finalized, processed) ==
    LET event_id == report.event_id
        first == IsNewlyReported(event_id, acc.pending_reports, finalized, processed)
                 /\ event_id \notin DOMAIN acc.event_first_reported_step
        old == IF DictHas(acc.pending_reports, event_id)
               THEN acc.pending_reports.val[event_id] ELSE <<>>
    IN [pending_reports |-> DictSet(acc.pending_reports, event_id, Append(old, report)),
        event_first_reported_step |->
            IF first THEN (event_id :> step) @@ acc.event_first_reported_step
            ELSE acc.event_first_reported_step,
        fabricated_events_reported |->
            IF first /\ StartsWithFake(event_id)
            THEN acc.fabricated_events_reported + 1
            ELSE acc.fabricated_events_reported]

RECURSIVE Collate(_, _, _, _, _)
Collate(reports, step, acc, finalized, processed) ==
    IF reports = <<>> THEN acc
    ELSE Collate(Tail(reports), step,
                 CollateOne(Head(reports), step, acc, finalized, processed),
                 finalized, processed)

\* ------------------------------------------ run_simulation_step, phase 2
\* line 110: the ids the verification loop skips
SkipVerification(event_id, finalized, processed) ==
    event_id \in finalized \/ event_id \in processed

\* faulty variant: the id is not marked as processed
MarkProcessed_Forget(processed, event_id) == processed

\* line 114
MarkProcessed(processed, event_id) == processed \cup {event_id}

\* line 116: the Guard has not voted on the id yet
HasNotVoted(guard, signatures, event_id) ==
    ~(DictHas(signatures, event_id) /\ guard.guard_id \in DOMAIN signatures.val[event_id])

\* one entry of the log of verify_event calls
VerifyCall(guard, report) == [guard_id |-> guard.guard_id, reported_event |-> report]

\* faulty variant: once a Guard has voted False the remaining Guards are not asked
RECURSIVE VerifyGuards_UntilDenied(_, _, _, _, _, _)
VerifyGuards_UntilDenied(k, gs, chains, acc, report, rnd) ==
    IF k > Len(gs) THEN acc
    ELSE LET event_id == report.event_id
             guard == gs[k]
             signatures == acc.guard_signatures
             verification_result ==
                 verify_event(guard, chains, report,
                              IF <<k, event_id>> \in DOMAIN rnd
                              THEN rnd[<<k, event_id>>] ELSE 0)
             votes == IF DictHas(signatures, event_id)
                      THEN signatures.val[event_id] ELSE EmptyFn
             next == [guard_signatures |->
                          DictSet(signatures, event_id,
                                  (guard.guard_id :> verification_result) @@ votes),
                      verify_calls |-> Append(acc.verify_calls, VerifyCall(guard, report))]
         IN IF ~HasNotVoted(guard, signatures, event_id)
            THEN VerifyGuards_UntilDenied(k + 1, gs, chains, acc, report, rnd)
            ELSE IF verification_result = "False" THEN next
            ELSE VerifyGuards_UntilDenied(k + 1, gs, chains, next, report, rnd)

\* "for guard in self.guards" for one event id; acc holds the signatures and the call log
RECURSIVE VerifyGuards(_, _, _, _, _, _)
VerifyGuards(k, gs, chains, acc, report, rnd) ==
    IF k > Len(gs) THEN acc
    ELSE LET event_id == report.event_id
             guard == gs[k]
             signatures == acc.guard_signatures
             next ==
                 IF HasNotVoted(guard, signatures, event_id)
                 THEN LET verification_result ==
                              verify_event(guard, chains, report,
                                  IF <<k, event_id>> \in DOMAIN rnd
                                  THEN rnd[<<k, event_id>>] ELSE 0)
                          votes == IF DictHas(signatures, event_id)
                                   THEN signatures.val[event_id] ELSE EmptyFn
                      IN [guard_signatures |->
                              DictSet(signatures, event_id,
                                      (guard.guard_id :> verification_result) @@ votes),
                          verify_calls |-> Append(acc.verify_calls, VerifyCall(guard, report))]
                 ELSE acc
         IN VerifyGuards(k + 1, gs, chains, next, report, rnd)

\* faulty variant: the Guards are shown the last report received for the id
RepresentativeReport_Last(reports_for_event) == reports_for_event[Len(reports_for_event)]

\* line 113: representative_report = reports_for_event[0]
RepresentativeReport(reports_for_event) == reports_for_event[1]

\* faulty variant: every pending id is verified afresh by every Guard in every step
\* (a Guard asked again draws no denial)
RECURSIVE VerifyAll_EveryStep(_, _, _, _, _, _, _)
VerifyAll_EveryStep(events_to_verify, pending, finalized, gs, chains, acc, rnd) ==
    IF events_to_verify = <<>> THEN acc
    ELSE LET event_id == Head(events_to_verify)
             report == pending.val[event_id][1]
             votes == [g \in {gs[k].guard_id : k \in DOMAIN gs} |->
                         LET k == CHOOSE m \in DOMAIN gs : gs[m].guard_id = g
                         IN verify_event(gs[k], chains, report,
                                         IF <<k, event_id>> \in DOMAIN rnd
                                         THEN rnd[<<k, event_id>>] ELSE 100)]
             next == [processed_event_ids |-> acc.processed_event_ids \cup {event_id},
                      guard_signatures |->
                          IF DOMAIN gs = {} THEN acc.guard_signatures
                          ELSE DictSet(acc.guard_signatures, event_id, votes),
                      verify_calls |->
                          acc.verify_calls \o [k \in DOMAIN gs |-> VerifyCall(gs[k], report)]]
         IN VerifyAll_EveryStep(Tail(events_to_verify), pending, finalized, gs, chains,
                                next, rnd)

\* "for event_id in events_to_verify"
RECURSIVE VerifyAll(_, _, _, _, _, _, _)
VerifyAll(events_to_verify, pending, finalized, gs, chains, acc, rnd) ==
    IF events_to_verify = <<>> THEN acc
    ELSE LET event_id == Head(events_to_verify)
             reports_for_event == pending.val[event_id]
             next ==
                 IF SkipVerification(event_id, finalized, acc.processed_event_ids)
                    \/ reports_for_event = <<>>
                 THEN acc
                 ELSE LET verified ==
                              VerifyGuards(1, gs, chains,
                                           [guard_signatures |-> acc.guard_signatures,
                                            verify_calls |-> acc.verify_calls],
                                           RepresentativeReport(reports_for_event), rnd)
                      IN [processed_event_ids |->
                              MarkProcessed(acc.processed_event_ids, event_id),
                          guard_signatures |-> verified.guard_signatures,
                          verify_calls |-> verified.verify_calls]
         IN VerifyAll(Tail(events_to_verify), pending, finalized, gs, chains, next, rnd)

\* the (guard index, event id) pairs for which the verification phase draws random.random()
RandomDraws(pending, finalized, processed, signatures, gs, chains) ==
    {<<k, event_id>> \in (DOMAIN gs) \X (DOMAIN pending.val) :
        /\ ~SkipVerification(event_id, finalized, processed)
        /\ HasNotVoted(gs[k], signatures, event_id)
        /\ DrawsRandom(gs[k], chains, pending.val[event_id][1])}

\* ------------------------------------------ run_simulation_step, phase 3
\* line 128: sum(1 for sig in signatures.values() if sig is True)
PositiveSignatures(signatures) ==
    Cardinality({g \in DOMAIN signatures : signatures[g] = "True"})

\* faulty variant: the quorum must be exceeded
ReachesThreshold_Strict(positive_signatures, threshold) == positive_signatures > threshold

\* line 130
ReachesThreshold(positive_signatures, threshold) == positive_signatures >= threshold

\* line 146: the Ledger backs the finalized report
LedgerAgrees(chains, representative_report) ==
    /\ representative_report.source_chain_id \in DOMAIN chains
    /\ LET source_chain == chains[representative_report.source_chain_id]
           event_id == representative_report.event_id
       IN /\ event_id \in DOMAIN source_chain.events
          /\ source_chain.events[event_id].is_valid
          /\ source_chain.events[event_id].data = representative_report.data

\* faulty variant: the amount is added for a valid finalization too
CountFinalized_ImpactAlways(st, chains, event_id, representative_report) ==
    LET amount == GetAmount(representative_report.data)
    IN IF StartsWithFake(event_id)
       THEN [st EXCEPT !.fabricated_events_finalized = @ + 1,
                       !.attack_impact_value = @ + amount]
       ELSE IF LedgerAgrees(chains, representative_report)
            THEN [st EXCEPT !.valid_events_finalized = @ + 1,
                            !.attack_impact_value = @ + amount]
            ELSE [st EXCEPT !.fabricated_events_finalized = @ + 1,
                            !.attack_impact_value = @ + amount]

\* lines 136-151: the counters after one finalization
CountFinalized(st, chains, event_id, representative_report) ==
    LET amount == GetAmount(representative_report.data)
    IN IF StartsWithFake(event_id)
       THEN [st EXCEPT !.fabricated_events_finalized = @ + 1,
                       !.attack_impact_value = @ + amount]
       ELSE IF LedgerAgrees(chains, representative_report)
            THEN [st EXCEPT !.valid_events_finalized = @ + 1]
            ELSE [st EXCEPT !.fabricated_events_finalized = @ + 1,
                            !.attack_impact_value = @ + amount]

\* faulty variant: the finalized set is overwritten instead of extended
AddFinalized_Overwrite(acc, event_id, step, first_step) ==
    LET report_step == IF event_id \in DOMAIN first_step THEN first_step[event_id] ELSE step
        latency == step - report_step
    IN [acc EXCEPT !.finalized_events = {event_id},
                   !.newly_finalized_ids = Append(@, event_id),
                   !.confirmation_latencies = Append(@, latency)]

\* faulty variant: a latency of 0 is not recorded
AddFinalized_SkipZero(acc, event_id, step, first_step) ==
    LET report_step == IF event_id \in DOMAIN first_step THEN first_step[event_id] ELSE step
        latency == step - report_step
    IN [acc EXCEPT !.finalized_events = @ \cup {event_id},
                   !.newly_finalized_ids = Append(@, event_id),
                   !.confirmation_latencies = IF latency = 0 THEN @ ELSE Append(@, latency)]

\* lines 131-135: the finalized set and the latency series after one finalization
AddFinalized(acc, event_id, step, first_step) ==
    LET report_step == IF event_id \in DOMAIN first_step THEN first_step[event_id] ELSE step
        latency == step - report_step
    IN [acc EXCEPT !.finalized_events = @ \cup {event_id},
                   !.newly_finalized_ids = Append(@, event_id),
                   !.confirmation_latencies = Append(@, latency)]

\* "for event_id in event_ids_processed_this_step"
RECURSIVE FinalizeAll(_, _, _, _, _, _, _, _)
FinalizeAll(event_ids, signatures, pending, chains, threshold, step, first_step, acc) ==
    IF event_ids = <<>> THEN acc
    ELSE LET event_id == Head(event_ids)
             next ==
                 IF event_id \in acc.finalized_events THEN acc
                 ELSE IF ReachesThreshold(PositiveSignatures(signatures.val[event_id]),
                                          threshold)
                      THEN [AddFinalized(acc, event_id, step, first_step) EXCEPT
                               !.stats = CountFinalized(@, chains, event_id,
                                                        pending.val[event_id][1])]
                      ELSE acc
         IN FinalizeAll(Tail(event_ids), signatures, pending, chains, threshold, step,
                        first_step, next)

\* ------------------------------------------ run_simulation_step, phase 4
RECURSIVE Cleanup(_, _)
Cleanup(newly_finalized_ids, pending) ==
    IF newly_finalized_ids = <<>> THEN pending
    ELSE Cleanup(Tail(newly_finalized_ids),
                 IF DictHas(pending, Head(newly_finalized_ids))
                 THEN DictDel(pending, Head(newly_finalized_ids)) ELSE pending)

\* ------------------------------------------------- run_simulation_step
\* what the Watchers' set iterations and random draws of one step can be.
\* new_event_ids is built the same way from the same ids by every honest Watcher
\* of a chain, so these Watchers iterate it in the same order; any order is possible.
WatcherOrders ==
    LET new(k) == IF watchers[k].is_malicious THEN {}
                  ELSE NewEventIds(watchers[k], blockchains)
        chainNew(c) == UNION {new(k) : k \in {m \in DOMAIN watchers :
                                                watchers[m].monitored_chain = c}}
        chainOrders == {o \in [DOMAIN blockchains ->
                                  UNION {Orders(chainNew(c)) : c \in DOMAIN blockchains}] :
                           \A c \in DOMAIN blockchains : o[c] \in Orders(chainNew(c))}
    IN {[k \in DOMAIN watchers |->
            SelectSeq(o[watchers[k].monitored_chain], LAMBDA e : e \in new(k))] :
        o \in chainOrders}
WatcherAmounts ==
    {a \in [DOMAIN watchers -> FakeAmounts] :
        \A k \in DOMAIN watchers :
            ~watchers[k].is_malicious => a[k] = CHOOSE x \in FakeAmounts : TRUE}

\* phases 1 to 4 of run_simulation_step(step) under the given draws
ReportPhase(step, orders, amounts) ==
    LET reported == ReportAll(1, watchers, blockchains, uuid_count, orders, amounts)
        collated == Collate(reported.reports, step,
                            [pending_reports |-> pending_reports,
                             event_first_reported_step |-> event_first_reported_step,
                             fabricated_events_reported |->
                                 stats.fabricated_events_reported],
                            finalized_events, processed_event_ids)
    IN [watchers |-> reported.watchers, uuid_count |-> reported.uuid_count,
        new_reports_this_step |-> reported.reports,
        pending_reports |-> collated.pending_reports,
        event_first_reported_step |-> collated.event_first_reported_step,
        fabricated_events_reported |-> collated.fabricated_events_reported]

\* faulty variant: the Guards are consulted on the first pending id only
VerificationPhase_FirstOnly(p1, rnd) ==
    VerifyAll(IF p1.pending_reports.keys = <<>> THEN <<>>
              ELSE <<Head(p1.pending_reports.keys)>>,
              p1.pending_reports, finalized_events, guards, blockchains,
              [processed_event_ids |-> processed_event_ids,
               guard_signatures |-> guard_signatures,
               verify_calls |-> <<>>],
              rnd)

VerificationPhase(p1, rnd) ==
    VerifyAll(p1.pending_reports.keys, p1.pending_reports, finalized_events, guards,
              blockchains,
              [processed_event_ids |-> processed_event_ids,
               guard_signatures |-> guard_signatures,
               verify_calls |-> <<>>],
              rnd)

FinalizationPhase(step, p1, p2) ==
    FinalizeAll(p2.guard_signatures.keys, p2.guard_signatures, p1.pending_reports,
                blockchains, guard_threshold, step, p1.event_first_reported_step,
                [finalized_events |-> finalized_events,
                 newly_finalized_ids |-> <<>>,
                 confirmation_latencies |-> confirmation_latencies,
                 stats |-> [stats EXCEPT !.fabricated_events_reported =
                               p1.fabricated_events_reported]])

\* faulty variant: finalized ids are left in the pending buffer
CleanupPhase_Keep(p1, p3) == p1.pending_reports

CleanupPhase(p1, p3) == Cleanup(p3.newly_finalized_ids, p1.pending_reports)

\* RosenbridgeSimulation.run_simulation_step(step)
run_simulation_step(step) ==
    \E orders \in WatcherOrders, amounts \in WatcherAmounts :
      \E p1 \in {ReportPhase(step, orders, amounts)} :
        \E rnd \in [RandomDraws(p1.pending_reports, finalized_events,
                                processed_event_ids, guard_signatures, guards,
                                blockchains) -> RandomValues] :
          \E p2 \in {VerificationPhase(p1, rnd)} :
            \E p3 \in {FinalizationPhase(step, p1, p2)} :
               /\ watchers' = p1.watchers
               /\ uuid_count' = p1.uuid_count
               /\ new_reports_this_step' = p1.new_reports_this_step
               /\ event_first_reported_step' = p1.event_first_reported_step
               /\ processed_event_ids' = p2.processed_event_ids
               /\ guard_signatures' = p2.guard_signatures
               /\ verify_calls' = p2.verify_calls
               /\ finalized_events' = p3.finalized_events
               /\ confirmation_latencies' = p3.confirmation_latencies
               /\ stats' = p3.stats
               /\ pending_reports' = CleanupPhase(p1, p3)
               /\ step_num' = step
               /\ UNCHANGED <<num_watchers, num_guards, watcher_malicious_ratio,
                              guard_malicious_ratio, guard_threshold, blockchains,
                              guards>>

\* ------------------------------------------------------- report_results
\* a / b * 100 as printed with two decimals, in hundredths of a percent;
\* Python raises ZeroDivisionError when b is 0
Percentage(a, b) ==
    IF b = 0 THEN "ZeroDivisionError" ELSE (2 * 10000 * a + b) \div (2 * b)

RECURSIVE SeqSum(_)
SeqSum(seq) == IF seq = <<>> THEN 0 ELSE Head(seq) + SeqSum(Tail(seq))

\* faulty variant: the rate is computed whatever the number of fraudulent reports
FalseAcceptanceRate_Unguarded(st) ==
    [text |-> "rate", finalized |-> st.fabricated_events_finalized,
     reported |-> st.fabricated_events_reported,
     rate |-> Percentage(st.fabricated_events_finalized, st.fabricated_events_reported)]

\* lines 174-178: the False Acceptance Rate line of the report
FalseAcceptanceRate(st) ==
    IF st.fabricated_events_reported > 0
    THEN [text |-> "rate", finalized |-> st.fabricated_events_finalized,
          reported |-> st.fabricated_events_reported,
          rate |-> Percentage(st.fabricated_events_finalized, st.fabricated_events_reported)]
    ELSE [text |-> "N/A"]

\* lines 180-189: the latency lines of the report; the average in hundredths
LatencyReport(latencies) ==
    IF latencies # <<>>
    THEN [text |-> "steps",
          average |-> (2 * 100 * SeqSum(latencies) + Len(latencies))
                          \div (2 * Len(latencies)),
          min |-> CHOOSE x \in Range(latencies) : \A y \in Range(latencies) : x <= y,
          max |-> CHOOSE x \in Range(latencies) : \A y \in Range(latencies) : x >= y]
    ELSE [text |-> "N/A"]

\* RosenbridgeSimulation.report_results: the values printed
report_results(st, latencies) ==
    [valid_events_created |-> st.valid_events_created,
     fabricated_events_reported |-> st.fabricated_events_reported,
     valid_events_finalized |-> st.valid_events_finalized,
     fabricated_events_finalized |-> st.fabricated_events_finalized,
     correctly_rejected_fraudulent |->
         st.fabricated_events_reported - st.fabricated_events_finalized,
     false_positives |-> st.valid_events_created - st.valid_events_finalized,
     false_acceptance_rate |-> FalseAcceptanceRate(st),
     latency |-> LatencyReport(latencies),
     attack_impact_value |-> st.attack_impact_value]

\* ------------------------------------------------- any caller of the class
\* the payload a caller passes (main.py's shape, without the tx_id)
CallerData == {[amount |-> a, recipient |-> "valid_user"] : a \in ValidAmounts}

TriggerEvent ==
    /\ pc = "ready"
    /\ uuid_count < MaxEvents
    /\ \E source_chain_id \in AllChainIds, target_chain_id \in AllChainIds, data \in CallerData :
          /\ target_chain_id # source_chain_id
          /\ trigger_event(source_chain_id, target_chain_id, data)
    /\ UNCHANGED <<config, num_watchers, num_guards, watcher_malicious_ratio,
                   guard_malicious_ratio, guard_threshold, watchers, guards,
                   pending_reports, guard_signatures, finalized_events,
                   processed_event_ids, event_first_reported_step,
                   confirmation_latencies, step_num, new_reports_this_step,
                   verify_calls, pc, i, j, iovars>>

RunSimulationStep ==
    /\ pc = "ready"
    /\ step_num < MaxSteps
    /\ uuid_count + Cardinality({k \in DOMAIN watchers : watchers[k].is_malicious}) <= MaxEvents
    /\ run_simulation_step(step_num + 1)
    /\ UNCHANGED <<config, pc, i, j, iovars>>

Next == Setup \/ TriggerEvent \/ RunSimulationStep

Spec == Init /\ [][Next]_vars

\* ------------------------------------------------------------- main.py
\* the script under any config module within the bounds
InitMain ==
    /\ config \in Configs(0..MaxSteps, 0..MaxEvents)
    /\ Constructed

InLoopBody ==
    /\ pc = "ready"
    /\ i < config.NUM_SIMULATION_STEPS
    /\ j < config.EVENTS_PER_STEP

\* lines 20-22: no chain, both loops are left
MainNoChains ==
    /\ InLoopBody
    /\ DOMAIN blockchains = {}
    /\ pc' = "report"
    /\ UNCHANGED <<config, simvars, i, j, iovars>>

\* lines 23-28: the source drawn has no other chain to send to
MainNoTarget ==
    /\ InLoopBody
    /\ \E source \in DOMAIN blockchains : (DOMAIN blockchains) \ {source} = {}
    /\ j' = j + 1
    /\ UNCHANGED <<config, simvars, pc, i, iovars>>

\* lines 23-34: one legitimate event is triggered
MainTriggerEvent ==
    /\ InLoopBody
    /\ uuid_count < MaxEvents
    /\ \E source \in DOMAIN blockchains, amount \in ValidAmounts :
         \E target \in (DOMAIN blockchains) \ {source} :
            trigger_event(source, target,
                          [amount |-> amount, tx_id |-> <<"tx", i + 1, j>>,
                           recipient |-> "valid_user"])
    /\ j' = j + 1
    /\ UNCHANGED <<config, num_watchers, num_guards, watcher_malicious_ratio,
                   guard_malicious_ratio, guard_threshold, watchers, guards,
                   pending_reports, guard_signatures, finalized_events,
                   processed_event_ids, event_first_reported_step,
                   confirmation_latencies, step_num, new_reports_this_step,
                   verify_calls, pc, i, iovars>>

\* lines 35-38: the inner loop ended without break
MainRunStep ==
    /\ pc = "ready"
    /\ i < config.NUM_SIMULATION_STEPS
    /\ j = config.EVENTS_PER_STEP
    /\ uuid_count + Cardinality({k \in DOMAIN watchers : watchers[k].is_malicious})
          <= MaxEvents
    /\ run_simulation_step(i + 1)
    /\ i' = i + 1
    /\ j' = 0
    /\ UNCHANGED <<config, pc, iovars>>

\* the outer loop ran NUM_SIMULATION_STEPS times
MainLoopEnd ==
    /\ pc = "ready"
    /\ i = config.NUM_SIMULATION_STEPS
    /\ pc' = "report"
    /\ UNCHANGED <<config, simvars, i, j, iovars>>

\* line 41: sim.report_results() reads the state and prints
MainReportResults ==
    /\ pc = "report"
    /\ pc' = "done"
    /\ printed' = report_results(stats, confirmation_latencies)
    /\ UNCHANGED <<config, simvars, i, j, call>>

NextMain ==
    \/ Setup
    \/ MainNoChains
    \/ MainNoTarget
    \/ MainTriggerEvent
    \/ MainRunStep
    \/ MainLoopEnd
    \/ MainReportResults

SpecMain == InitMain /\ [][NextMain]_vars

\* ------------------------------------- run_simulation_step phase by phase
\* the same caller as in Spec, with the position inside run_simulation_step made
\* visible: pc is "reported" after phase 1 and "verified" after phase 2
\* lines 89-103
PhaseReport ==
    /\ pc = "ready"
    /\ step_num < MaxSteps
    /\ uuid_count + Cardinality({k \in DOMAIN watchers : watchers[k].is_malicious}) <= MaxEvents
    /\ pc' = "reported"
    /\ step_num' = step_num + 1
    /\ \E orders \in WatcherOrders, amounts \in WatcherAmounts :
         \E p1 \in {ReportPhase(step_num + 1, orders, amounts)} :
            /\ watchers' = p1.watchers
            /\ uuid_count' = p1.uuid_count
            /\ new_reports_this_step' = p1.new_reports_this_step
            /\ pending_reports' = p1.pending_reports
            /\ event_first_reported_step' = p1.event_first_reported_step
            /\ stats' = [stats EXCEPT !.fabricated_events_reported =
                             p1.fabricated_events_reported]
    /\ verify_calls' = <<>>
    /\ UNCHANGED <<config, num_watchers, num_guards, watcher_malicious_ratio,
                   guard_malicious_ratio, guard_threshold, blockchains, guards,
                   guard_signatures, finalized_events, processed_event_ids,
                   confirmation_latencies, i, j, iovars>>

\* what phase 1 left in the state
Reported ==
    [pending_reports |-> pending_reports,
     event_first_reported_step |-> event_first_reported_step,
     fabricated_events_reported |-> stats.fabricated_events_reported]

\* lines 105-119
PhaseVerify ==
    /\ pc = "reported"
    /\ pc' = "verified"
    /\ \E rnd \in [RandomDraws(pending_reports, finalized_events, processed_event_ids,
                                guard_signatures, guards, blockchains) -> RandomValues] :
         \E p2 \in {VerificationPhase(Reported, rnd)} :
            /\ processed_event_ids' = p2.processed_event_ids
            /\ guard_signatures' = p2.guard_signatures
            /\ verify_calls' = p2.verify_calls
    /\ UNCHANGED <<config, num_watchers, num_guards, watcher_malicious_ratio,
                   guard_malicious_ratio, guard_threshold, blockchains, watchers, guards,
                   pending_reports, finalized_events, event_first_reported_step,
                   confirmation_latencies, stats, uuid_count, step_num,
                   new_reports_this_step, i, j, iovars>>

\* lines 121-156
PhaseFinalize ==
    /\ pc = "verified"
    /\ pc' = "ready"
    /\ \E p3 \in {FinalizationPhase(step_num, Reported,
                                     [processed_event_ids |-> processed_event_ids,
                                      guard_signatures |-> guard_signatures])} :
            /\ finalized_events' = p3.finalized_events
            /\ confirmation_latencies' = p3.confirmation_latencies
            /\ stats' = p3.stats
            /\ pending_reports' = CleanupPhase(Reported, p3)
    /\ UNCHANGED <<config, num_watchers, num_guards, watcher_malicious_ratio,
                   guard_malicious_ratio, guard_threshold, blockchains, watchers, guards,
                   guard_signatures, processed_event_ids, event_first_reported_step,
                   uuid_count, step_num, new_reports_this_step, verify_calls, i, j,
                   iovars>>

NextPhases == Setup \/ TriggerEvent \/ PhaseReport \/ PhaseVerify \/ PhaseFinalize

SpecPhases == Init /\ [][NextPhases]_vars

\* ---------------------------------------- calls on one object at a time
\* a simulation without Watchers: its Ledgers are filled by trigger_event and one
\* of its Guards is then shown a report that no Watcher needs to have made
InitCalls ==
    /\ config \in {c \in Configs({0}, {0}) :
                      /\ c.NUM_WATCHERS = 0
                      /\ c.WATCHER_MALICIOUS_RATIO = 0
                      /\ c.GUARD_THRESHOLD_RATIO = 100}
    /\ Constructed

\* payloads with and without an amount
CallData == CallerData \cup {[recipient |-> "valid_user"]}

\* what trigger_event returns: the Event added, or None
TriggerEventReturn(source_chain_id, target_chain_id, data) ==
    IF source_chain_id \in DOMAIN blockchains
    THEN add_event(blockchains[source_chain_id], uuid_count + 1, target_chain_id, data).event
    ELSE "None"

CallTriggerEvent ==
    /\ pc = "ready"
    /\ uuid_count < MaxEvents
    /\ \E source_chain_id \in AllChainIds, target_chain_id \in AllChainIds, data \in CallData :
          /\ target_chain_id # source_chain_id
          /\ trigger_event(source_chain_id, target_chain_id, data)
          /\ call' = [op |-> "trigger_event", source_chain_id |-> source_chain_id,
                      target_chain_id |-> target_chain_id, data |-> data,
                      result |-> TriggerEventReturn(source_chain_id, target_chain_id, data)]
    /\ UNCHANGED <<config, num_watchers, num_guards, watcher_malicious_ratio,
                   guard_malicious_ratio, guard_threshold, watchers, guards,
                   pending_reports, guard_signatures, finalized_events,
                   processed_event_ids, event_first_reported_step,
                   confirmation_latencies, step_num, new_reports_this_step,
                   verify_calls, pc, i, j, printed>>

\* the reports a Guard can be shown: the id of a stored event, of no event, or a
\* fraud-marked id; a chain of the simulation or not; a stored payload or not
CallReports ==
    LET stored == UNION {DOMAIN blockchains[c].events : c \in DOMAIN blockchains}
    IN {ReportedEvent(event_id, source_chain_id, "ChainB", data, "caller") :
           event_id \in stored \cup {<<"", 0>>, <<"fake-", 0>>},
           source_chain_id \in AllChainIds \cup {"ChainX"},
           data \in CallData}

CallVerifyEvent ==
    /\ pc = "ready"
    /\ pc' = "called"
    /\ \E k \in DOMAIN guards, reported_event \in CallReports :
         \E rnd \in IF DrawsRandom(guards[k], blockchains, reported_event)
                     THEN RandomValues ELSE {0} :
            call' = [op |-> "verify_event", guard |-> guards[k],
                     reported_event |-> reported_event, rnd |-> rnd,
                     result |-> verify_event(guards[k], blockchains, reported_event, rnd)]
    /\ UNCHANGED <<config, simvars, i, j, printed>>

\* lines 136-151 applied to the pending reports of one id that reached the quorum:
\* one report, or two that differ in payload
CallCountFinalized ==
    /\ pc = "ready"
    /\ pc' = "called"
    /\ \E first \in CallReports, data \in CallData :
         \E reports_for_event \in {<<first>>, <<first, [first EXCEPT !.data = data]>>} :
            /\ stats' = CountFinalized(stats, blockchains, first.event_id,
                                       RepresentativeReport(reports_for_event))
            /\ call' = [op |-> "count_finalized", reports_for_event |-> reports_for_event]
    /\ UNCHANGED <<config, num_watchers, num_guards, watcher_malicious_ratio,
                   guard_malicious_ratio, guard_threshold, blockchains, watchers, guards,
                   pending_reports, guard_signatures, finalized_events,
                   processed_event_ids, event_first_reported_step,
                   confirmation_latencies, uuid_count, step_num, new_reports_this_step,
                   verify_calls, i, j, printed>>

NextCalls == Setup \/ CallTriggerEvent \/ CallVerifyEvent \/ CallCountFinalized

SpecCalls == InitCalls /\ [][NextCalls]_vars

\* ============================================================ properties
MaliciousGuards == Cardinality({k \in DOMAIN guards : guards[k].is_malicious})
HonestGuards == Cardinality({k \in DOMAIN guards : ~guards[k].is_malicious})
GuardIds == {guards[k].guard_id : k \in DOMAIN guards}
SignedIds == DOMAIN guard_signatures.val
PendingIds == DOMAIN pending_reports.val
SeenIds == DOMAIN event_first_reported_step
Positive(event_id) == PositiveSignatures(guard_signatures.val[event_id])

\* the ids the step just taken reported for the first time, and those it finalized
NewlySeen == (DOMAIN event_first_reported_step') \ SeenIds
NewlyFinalized == finalized_events' \ finalized_events
\* the payload amount of the first report of an id among the reports of the step just taken
FirstReportAmount(event_id) ==
    LET ks == {k \in DOMAIN new_reports_this_step' :
                  new_reports_this_step'[k].event_id = event_id}
        k0 == CHOOSE k \in ks : \A m \in ks : k <= m
    IN GetAmount(new_reports_this_step'[k0].data)
\* the sum of these amounts over a set of ids
RECURSIVE SumAmounts(_)
SumAmounts(S) ==
    IF S = {} THEN 0
    ELSE LET x == CHOOSE y \in S : TRUE IN FirstReportAmount(x) + SumAmounts(S \ {x})
\* the latencies the step just taken appended are all 0, one per finalized id
AppendedZeroLatencies ==
    /\ Len(confirmation_latencies') = Len(confirmation_latencies) + Cardinality(NewlyFinalized)
    /\ \A k \in DOMAIN confirmation_latencies' :
          IF k <= Len(confirmation_latencies)
          THEN confirmation_latencies'[k] = confirmation_latencies[k]
          ELSE confirmation_latencies'[k] = 0

\* C1: an id is in finalized_events only if its signature set holds at least
\* guard_threshold True votes, and every id whose signature set holds at least
\* guard_threshold True votes is in finalized_events when the step ends.
C1_FinalizedIffQuorum ==
    /\ \A event_id \in finalized_events :
          event_id \in SignedIds /\ Positive(event_id) >= guard_threshold
    /\ \A event_id \in SignedIds :
          Positive(event_id) >= guard_threshold => event_id \in finalized_events
\* an id at quorum (finalized) next to a signed id with at least one True vote below quorum
C1_Witness ==
    /\ \E event_id \in finalized_events : Positive(event_id) = guard_threshold
    /\ \E event_id \in SignedIds \ finalized_events :
          Positive(event_id) >= 1 /\ Positive(event_id) + 1 = guard_threshold

\* C2: a fraud-marked id first reported in a step is, when the malicious Guards
\* number at least the threshold, finalized in that step with latency 0 and
\* attack_impact_value grows by its report's amount; when they number less, it is
\* not finalized in that step nor in any later one and attack_impact_value does
\* not change on its account.
C2_FraudStep ==
    LET newFakes == {e \in NewlySeen : StartsWithFake(e)}
        finalizedFakes == IF MaliciousGuards >= guard_threshold THEN newFakes ELSE {}
    IN /\ \A e \in newFakes :
             IF MaliciousGuards >= guard_threshold
             THEN /\ e \in NewlyFinalized
                  /\ step_num' - event_first_reported_step'[e] = 0
                  /\ AppendedZeroLatencies
             ELSE e \notin finalized_events'
       /\ \A e \in SeenIds \ finalized_events :
             (StartsWithFake(e) /\ MaliciousGuards < guard_threshold)
                => e \notin finalized_events'
       /\ {e \in NewlyFinalized : StartsWithFake(e)} = finalizedFakes
       /\ stats'.attack_impact_value - stats.attack_impact_value
             = SumAmounts(finalizedFakes)
       /\ stats'.fabricated_events_finalized - stats.fabricated_events_finalized
             = Cardinality(finalizedFakes)
C2_FraudFinalizedOrStuck == [][C2_FraudStep]_vars
\* a finalized fraud among honest and malicious Guards, its amount in the attack impact
C2_Witness ==
    \E e \in finalized_events :
        /\ StartsWithFake(e)
        /\ MaliciousGuards >= guard_threshold
        /\ HonestGuards >= 1
        /\ stats.attack_impact_value \in FakeAmounts

\* C3: when the honest Guards number at least the threshold, every real Ledger
\* event reported for the first time in a step is finalized in that step with
\* latency 0 and counted once in valid_events_finalized, and neither
\* fabricated_events_finalized nor attack_impact_value changes on its account.
C3_RealStep ==
    LET newReal == {e \in NewlySeen : ~StartsWithFake(e)}
        finalizedFakes == {e \in NewlyFinalized : StartsWithFake(e)}
    IN HonestGuards >= guard_threshold =>
          /\ \A e \in newReal :
                /\ e \in NewlyFinalized
                /\ step_num' - event_first_reported_step'[e] = 0
                /\ AppendedZeroLatencies
          /\ stats'.valid_events_finalized - stats.valid_events_finalized
                = Cardinality(newReal)
          /\ stats'.fabricated_events_finalized - stats.fabricated_events_finalized
                = Cardinality(finalizedFakes)
          /\ stats'.attack_impact_value - stats.attack_impact_value
                = SumAmounts(finalizedFakes)
C3_HonestQuorumFinalizesReal == [][C3_RealStep]_vars
\* a real event finalized although a malicious Guard denied it
C3_Witness ==
    \E e \in finalized_events :
        /\ ~StartsWithFake(e)
        /\ HonestGuards >= guard_threshold
        /\ \E g \in DOMAIN guard_signatures.val[e] : guard_signatures.val[e][g] = "False"
        /\ stats.valid_events_finalized = 1
        /\ stats.attack_impact_value = 0

\* C4: finalized_events only grows, over every sequence of trigger_event and
\* run_simulation_step calls.
C4_FinalizedMonotone == [][finalized_events \subseteq finalized_events']_vars
\* an id finalized in an earlier step, still finalized after a step that finalized another
C4_Witness ==
    \E e1 \in finalized_events, e2 \in finalized_events :
        event_first_reported_step[e1] < event_first_reported_step[e2]

\* C5: when a step ends no finalized id is a key of pending_reports, and no step
\* collects a report for an id that was finalized before it.
C5_NoFinalizedPending == finalized_events \cap PendingIds = {}
C5_NoReportOfFinalized ==
    \A k \in DOMAIN new_reports_this_step' :
        step_num' # step_num => new_reports_this_step'[k].event_id \notin finalized_events
C5_FinalizedNeverPending ==
    [](C5_NoFinalizedPending) /\ [][C5_NoReportOfFinalized]_vars
\* a later step collected reports while an id finalized earlier stays out of pending
C5_Witness ==
    /\ \E e \in finalized_events : event_first_reported_step[e] < step_num
    /\ new_reports_this_step # <<>>
    /\ PendingIds # {}

\* C6: every signature set has at most num_guards entries, keyed by guard ids of
\* the Guard list, and a recorded vote is never removed or changed.
C6_SignatureKeys ==
    \A e \in SignedIds :
        /\ DOMAIN guard_signatures.val[e] \subseteq GuardIds
        /\ Cardinality(DOMAIN guard_signatures.val[e]) <= num_guards
C6_VotesKept ==
    \A e \in SignedIds :
        /\ e \in DOMAIN guard_signatures'.val
        /\ \A g \in DOMAIN guard_signatures.val[e] :
              /\ g \in DOMAIN guard_signatures'.val[e]
              /\ guard_signatures'.val[e][g] = guard_signatures.val[e][g]
C6_IdempotentVoting == [](C6_SignatureKeys) /\ [][C6_VotesKept]_vars
\* a real event denied by a malicious Guard, still pending after a later step
C6_Witness ==
    \E e \in SignedIds \cap PendingIds :
        /\ ~StartsWithFake(e)
        /\ event_first_reported_step[e] < step_num
        /\ Cardinality(DOMAIN guard_signatures.val[e]) = num_guards
        /\ num_guards >= 2
        /\ \E g \in DOMAIN guard_signatures.val[e] : guard_signatures.val[e][g] = "False"

\* C7: an id that is processed but not finalized when a step ends is never
\* finalized by a later step.
C7_StuckStep ==
    \A e \in processed_event_ids \ finalized_events : e \notin finalized_events'
C7_StuckIsPermanent == [][C7_StuckStep]_vars
\* a real event that missed the quorum in an earlier step and is still not finalized
C7_Witness ==
    \E e \in (processed_event_ids \cap SignedIds) \ finalized_events :
        /\ ~StartsWithFake(e)
        /\ event_first_reported_step[e] < step_num
        /\ Positive(e) < guard_threshold
        /\ MaliciousGuards >= 1

\* C8: every id moves unseen -> pending -> processed -> finalized or stuck and
\* never backward: a finalized id was processed, a processed id was pending (has
\* a first-seen step), and processed, finalized and first-seen ids stay so.
\* 0 unseen, 1 pending, 2 processed (stuck unless finalized), 3 finalized
Stage(e, seen, pending, processed, finalized) ==
    IF e \in finalized THEN 3
    ELSE IF e \in processed THEN 2
    ELSE IF e \in pending \/ e \in seen THEN 1
    ELSE 0
C8_Ordered ==
    /\ finalized_events \subseteq processed_event_ids
    /\ processed_event_ids \subseteq SeenIds
    /\ PendingIds \subseteq SeenIds
    /\ SignedIds \subseteq processed_event_ids
C8_Forward ==
    /\ processed_event_ids \subseteq processed_event_ids'
    /\ finalized_events \subseteq finalized_events'
    /\ \A e \in SeenIds :
          /\ e \in DOMAIN event_first_reported_step'
          /\ event_first_reported_step'[e] = event_first_reported_step[e]
    /\ \A e \in SeenIds \cup DOMAIN event_first_reported_step' :
          Stage(e, DOMAIN event_first_reported_step', DOMAIN pending_reports'.val,
                processed_event_ids', finalized_events')
             >= Stage(e, SeenIds, PendingIds, processed_event_ids, finalized_events)
C8_EventStateMachine == [](C8_Ordered) /\ [][C8_Forward]_vars
\* a finalized id and a stuck id, both seen in an earlier step
C8_Witness ==
    /\ \E e \in finalized_events : event_first_reported_step[e] < step_num
    /\ \E e \in processed_event_ids \ finalized_events :
          e \in PendingIds /\ event_first_reported_step[e] < step_num

\* C9: with NUM_GUARDS = 0 setup aborts and no run_simulation_step is executed.
C9_ZeroGuardsAbort == config.NUM_GUARDS = 0 => step_num = 0

\* C10: with an empty chain list the run aborts before any run_simulation_step,
\* for every EVENTS_PER_STEP.
C10_NoChainsAbort == config.CHAIN_IDS = <<>> => step_num = 0

\* the direct call just made is a verify_event call
VerifyEventCalled == pc = "called" /\ call.op = "verify_event"

\* C11: a Guard of either variant returns False for a report whose source chain
\* is not one of the chains it knows; in particular a malicious Guard does not
\* approve a fraud-marked report on an unknown chain.
C11_UnknownChainRejected ==
    (VerifyEventCalled /\ call.reported_event.source_chain_id \notin DOMAIN blockchains)
        => call.result = "False"

C11_Witness ==
    /\ VerifyEventCalled
    /\ call.guard.is_malicious
    /\ StartsWithFake(call.reported_event.event_id)
    /\ DOMAIN blockchains # {}
    /\ call.reported_event.source_chain_id \notin DOMAIN blockchains
    /\ call.result = "False"

\* a run_simulation_step call is being made
StepTaken == step_num' # step_num
\* the ids a Watcher reported in the step just taken, and how often it reported one
ReportedBy(watcher_id) ==
    {new_reports_this_step'[k].event_id : k \in
        {m \in DOMAIN new_reports_this_step' :
            new_reports_this_step'[m].reporter_id = watcher_id}}
TimesReportedBy(watcher_id, event_id) ==
    Cardinality({m \in DOMAIN new_reports_this_step' :
                    /\ new_reports_this_step'[m].reporter_id = watcher_id
                    /\ new_reports_this_step'[m].event_id = event_id})

\* C12: an honest Watcher never reports an id twice: what it reports in a call is
\* exactly the events of its chain that it has not reported in an earlier call,
\* each once, so an event is reported in the first call made after it was added.
C12_HonestStep ==
    StepTaken =>
        \A k \in DOMAIN watchers :
            ~watchers[k].is_malicious =>
                LET w == watchers[k]
                    on_chain == DOMAIN blockchains[w.monitored_chain].events
                    reported == ReportedBy(w.watcher_id)
                IN /\ w.seen_event_ids \subseteq on_chain
                   /\ reported = on_chain \ w.seen_event_ids
                   /\ \A e \in reported : TimesReportedBy(w.watcher_id, e) = 1
                   /\ watchers'[k].seen_event_ids = w.seen_event_ids \cup reported
                   /\ watchers'[k].seen_event_ids = on_chain
C12_HonestWatcherReportsOnce == [][C12_HonestStep]_vars

\* an honest Watcher reported one event in the first step and another in the second
C12_Witness ==
    /\ step_num = 2
    /\ \E k \in DOMAIN watchers :
          /\ ~watchers[k].is_malicious
          /\ Cardinality(watchers[k].seen_event_ids) = 2
          /\ Cardinality({m \in DOMAIN new_reports_this_step :
                             new_reports_this_step[m].reporter_id
                                 = watchers[k].watcher_id}) = 1

\* the Ledger named by a report stores the reported id with the reported payload
BackedByLedger(r) ==
    /\ r.source_chain_id \in DOMAIN blockchains
    /\ r.event_id \in DOMAIN blockchains[r.source_chain_id].events
    /\ blockchains[r.source_chain_id].events[r.event_id].data = r.data
    /\ blockchains[r.source_chain_id].events[r.event_id].source_chain_id = r.source_chain_id
MaliciousWatcherIds == {watchers[k].watcher_id : k \in {m \in DOMAIN watchers :
                                                         watchers[m].is_malicious}}

\* C13: every report made by a malicious Watcher carries the "fake-" marker, and
\* every unmarked id in the pending buffer or in the first-seen table is the id of
\* an event stored on the Ledger its report names, with the reported payload.
C13_FraudTagging ==
    /\ \A m \in DOMAIN new_reports_this_step :
          LET r == new_reports_this_step[m]
          IN IF r.reporter_id \in MaliciousWatcherIds
             THEN StartsWithFake(r.event_id)
             ELSE ~StartsWithFake(r.event_id) /\ BackedByLedger(r)
    /\ \A event_id \in PendingIds :
          ~StartsWithFake(event_id) =>
              \A m \in DOMAIN pending_reports.val[event_id] :
                  BackedByLedger(pending_reports.val[event_id][m])
    /\ \A event_id \in SeenIds :
          ~StartsWithFake(event_id) =>
              \E c \in DOMAIN blockchains :
                  /\ event_id \in DOMAIN blockchains[c].events
                  /\ blockchains[c].events[event_id].source_chain_id = c

\* a step in which a malicious Watcher reported, and which left a real event pending
C13_Witness ==
    /\ \E m \in DOMAIN new_reports_this_step :
          /\ new_reports_this_step[m].reporter_id \in MaliciousWatcherIds
          /\ StartsWithFake(new_reports_this_step[m].event_id)
    /\ \E event_id \in PendingIds \cap SeenIds : ~StartsWithFake(event_id)

\* floor(n * ratio / 100): the largest k with k <= n * ratio / 100
FloorOfProduct(n, ratio) ==
    CHOOSE k \in 0..n : k * 100 <= n * ratio /\ (k + 1) * 100 > n * ratio

\* C14: guard_threshold is max(1, floor(NUM_GUARDS * GUARD_THRESHOLD_RATIO)); it is
\* computed at construction and no operation changes it.
C14_ThresholdValue ==
    LET floor == FloorOfProduct(config.NUM_GUARDS, config.GUARD_THRESHOLD_RATIO)
    IN /\ guard_threshold >= 1
       /\ guard_threshold >= floor
       /\ guard_threshold = 1 \/ guard_threshold = floor
C15_LatencyNonNegative ==
    \A k \in DOMAIN confirmation_latencies : confirmation_latencies[k] >= 0

\* one event finalized in the first step and another in the second
C15_Witness ==
    /\ step_num = 2
    /\ Len(confirmation_latencies) = 2
    /\ \E e \in finalized_events : event_first_reported_step[e] = 2
    /\ \E e \in finalized_events : event_first_reported_step[e] = 1

\* ---- two runs under one seed
\* random.seed fixes the random module's stream: the amounts a malicious Watcher
\* draws and the random.random() values, consumed in call order.  It fixes neither
\* uuid.uuid4() (operating-system entropy) nor the iteration order of a set of
\* strings (string hashing is salted per process).
\* the uuid4 values a run may draw next: any that are not in use
UuidDraws == {uuid_count, uuid_count + 1}
\* the random.random() calls of the verification phase in call order: ids in the
\* order of the pending buffer, Guards in list order
StreamDraws(draws, keys, stream) ==
    LET pos(e) == CHOOSE m \in DOMAIN keys : keys[m] = e
        before(p) == {q \in draws : \/ pos(q[2]) < pos(p[2])
                                    \/ (q[2] = p[2] /\ q[1] < p[1])}
    IN [p \in draws |-> stream[Cardinality(before(p)) + 1]]
\* the finalized set, the latency series and the counters after
\* run_simulation_step(step) from the present state
StepOutcome(step, orders, amounts, uuid, stream) ==
    LET reported == ReportAll(1, watchers, blockchains, uuid, orders, amounts)
        collated == Collate(reported.reports, step,
                            [pending_reports |-> pending_reports,
                             event_first_reported_step |-> event_first_reported_step,
                             fabricated_events_reported |->
                                 stats.fabricated_events_reported],
                            finalized_events, processed_event_ids)
        draws == RandomDraws(collated.pending_reports, finalized_events,
                             processed_event_ids, guard_signatures, guards, blockchains)
        p1 == [pending_reports |-> collated.pending_reports,
               event_first_reported_step |-> collated.event_first_reported_step,
               fabricated_events_reported |-> collated.fabricated_events_reported]
        p2 == VerificationPhase(p1, StreamDraws(draws, collated.pending_reports.keys, stream))
        p3 == FinalizationPhase(step, p1, p2)
    IN [finalized_events |-> p3.finalized_events,
        confirmation_latencies |-> p3.confirmation_latencies,
        stats |-> p3.stats]
\* the streams long enough for one step
Streams == [1..(Len(guards) * MaxEvents) -> RandomValues]

\* C16: two runs under the same configuration and the same random seed end a
\* step with the same finalized set, the same latency series and the same
\* counters: from a common state, the outcome of run_simulation_step depends on
\* nothing but the seeded stream.
C16_Reproducible ==
    pc = "ready" =>
        \A amounts \in WatcherAmounts, stream \in Streams :
            \A orders1 \in WatcherOrders, orders2 \in WatcherOrders :
                \A uuid1 \in UuidDraws, uuid2 \in UuidDraws :
                    StepOutcome(step_num + 1, orders1, amounts, uuid1, stream)
                        = StepOutcome(step_num + 1, orders2, amounts, uuid2, stream)

\* C17: report_results prints the False Acceptance Rate as not applicable whenever
\* fabricated_events_reported is 0 and divides only by a positive count: the rate
\* printed is fabricated_events_finalized / fabricated_events_reported in percent.
C17_FalseAcceptanceRate ==
    pc = "done" =>
        LET far == printed.false_acceptance_rate
            reported == stats.fabricated_events_reported
            finalized == stats.fabricated_events_finalized
        IN IF reported = 0
           THEN far.text = "N/A"
           ELSE /\ far.text = "rate"
                /\ far.reported = reported
                /\ far.finalized = finalized
                /\ 2 * (far.rate * reported - 10000 * finalized) <= reported
                /\ 2 * (10000 * finalized - far.rate * reported) <= reported

\* a report after a run without fraudulent reports
C17_Witness ==
    /\ pc = "done"
    /\ step_num >= 1
    /\ stats.valid_events_finalized >= 1
    /\ stats.fabricated_events_reported = 0
    /\ printed.false_acceptance_rate.text = "N/A"

\* all ids stored on any Ledger
StoredIds == UNION {DOMAIN blockchains[c].events : c \in DOMAIN blockchains}

\* C18: trigger_event on a known source chain stores exactly one new valid Event
\* on that Ledger, with that Ledger's id as source chain and an id no Ledger held,
\* and adds one to valid_events_created; on an unknown source chain it returns no
\* event and leaves every Ledger and every counter as they were.
C18_TriggerStep ==
    (call' # call /\ call'.op = "trigger_event") =>
        LET source == call'.source_chain_id
        IN IF source \in DOMAIN blockchains
           THEN LET event == call'.result
                    event_id == event.event_id
                IN /\ event_id \notin StoredIds
                   /\ event = Event(event_id, blockchains[source].chain_id,
                                    call'.target_chain_id, call'.data, TRUE)
                   /\ blockchains[source].chain_id = source
                   /\ DOMAIN blockchains' = DOMAIN blockchains
                   /\ \A c \in (DOMAIN blockchains) \ {source} :
                         blockchains'[c] = blockchains[c]
                   /\ blockchains'[source].chain_id = source
                   /\ DOMAIN blockchains'[source].events
                         = (DOMAIN blockchains[source].events) \cup {event_id}
                   /\ blockchains'[source].events[event_id] = event
                   /\ \A e \in DOMAIN blockchains[source].events :
                         blockchains'[source].events[e] = blockchains[source].events[e]
                   /\ stats' = [stats EXCEPT !.valid_events_created = @ + 1]
           ELSE /\ call'.result = "None"
                /\ blockchains' = blockchains
                /\ stats' = stats
C18_TriggerEvent == [][C18_TriggerStep]_vars

\* one event was stored, and a later call named a chain the simulation does not have
C18_Witness ==
    /\ call.op = "trigger_event"
    /\ call.source_chain_id \notin DOMAIN blockchains
    /\ stats.valid_events_created = 1
    /\ Cardinality(StoredIds) = 1

\* the first report made for an id in the step just taken
FirstReportOf(event_id) ==
    LET ks == {k \in DOMAIN new_reports_this_step' :
                  new_reports_this_step'[k].event_id = event_id}
    IN new_reports_this_step'[CHOOSE k \in ks : \A m \in ks : k <= m]

\* C19: a Guard's verify_event is called at most once for an event id, on the
\* first report received for it and in the step in which the id first becomes
\* pending; a duplicate report, a processed id and a finalized id cause no call.
C19_VerifyStep ==
    StepTaken =>
        /\ \A m \in DOMAIN verify_calls' :
              LET event_id == verify_calls'[m].reported_event.event_id
              IN /\ verify_calls'[m].guard_id \in GuardIds
                 /\ event_id \in NewlySeen
                 /\ event_id \notin PendingIds
                 /\ event_id \notin processed_event_ids
                 /\ event_id \notin finalized_events
                 /\ verify_calls'[m].reported_event = FirstReportOf(event_id)
        /\ \A m, n \in DOMAIN verify_calls' :
              (/\ verify_calls'[m].guard_id = verify_calls'[n].guard_id
               /\ verify_calls'[m].reported_event.event_id
                     = verify_calls'[n].reported_event.event_id) => m = n
C19_SingleVerificationPass == [][C19_VerifyStep]_vars

\* the second step made one call, for an event that two Watchers reported, and
\* none for the id left pending by the first step
C19_Witness ==
    /\ step_num = 2
    /\ Len(verify_calls) = 1
    /\ Cardinality({m \in DOMAIN new_reports_this_step :
                       new_reports_this_step[m].event_id
                           = verify_calls[1].reported_event.event_id}) = 2
    /\ \E event_id \in PendingIds \cap processed_event_ids :
          event_id # verify_calls[1].reported_event.event_id

\* C20: on a known chain an honest Guard returns True when the Ledger stores the
\* reported id with the reported payload and False otherwise; in particular the
\* result is False when the Ledger has no event with that id.
C20_HonestVote ==
    (/\ VerifyEventCalled
     /\ ~call.guard.is_malicious
     /\ call.reported_event.source_chain_id \in DOMAIN blockchains) =>
        LET r == call.reported_event
            events == blockchains[r.source_chain_id].events
        IN call.result = IF r.event_id \in DOMAIN events /\ events[r.event_id].data = r.data
                         THEN "True" ELSE "False"

\* the Ledger named by the report of the direct call stores its id with its payload
CallBacked ==
    LET r == call.reported_event
    IN /\ r.source_chain_id \in DOMAIN blockchains
       /\ r.event_id \in DOMAIN blockchains[r.source_chain_id].events
       /\ blockchains[r.source_chain_id].events[r.event_id].data = r.data

\* C21: on a known chain a malicious Guard returns True for every fraud-marked
\* report whatever the Ledger holds; for an unmarked report it returns False when
\* the coin says deny and otherwise what an honest Guard returns, so it returns
\* True for an unmarked report only if the Ledger backs it.
C21_MaliciousGuard ==
    (/\ VerifyEventCalled
     /\ call.guard.is_malicious
     /\ call.reported_event.source_chain_id \in DOMAIN blockchains) =>
        IF StartsWithFake(call.reported_event.event_id)
        THEN call.result = "True"
        ELSE /\ call.rnd < DenyProbability => call.result = "False"
             /\ call.rnd >= DenyProbability =>
                    call.result = verify_event(Guard(call.guard.guard_id, FALSE),
                                               blockchains, call.reported_event, call.rnd)
             /\ call.result = "True" => CallBacked

\* a malicious Guard that does not deny, shown a stored id with another payload
C21_Witness ==
    /\ VerifyEventCalled
    /\ call.guard.is_malicious
    /\ call.reported_event.source_chain_id \in DOMAIN blockchains
    /\ call.reported_event.event_id
          \in DOMAIN blockchains[call.reported_event.source_chain_id].events
    /\ ~CallBacked
    /\ call.rnd >= DenyProbability
    /\ call.result = "False"

\* the reports a Watcher made in the step just taken
ReportsBy(watcher_id) ==
    {m \in DOMAIN new_reports_this_step' :
        new_reports_this_step'[m].reporter_id = watcher_id}

\* C22: in every call a malicious Watcher makes exactly one report; its id carries
\* the fraud marker and was never reported before nor is reported by anyone else,
\* its source chain is the Watcher's monitored chain, it names no event stored on
\* a Ledger, and the Watcher's seen set does not change.
C22_MaliciousStep ==
    StepTaken =>
        \A k \in DOMAIN watchers :
            watchers[k].is_malicious =>
                /\ Cardinality(ReportsBy(watchers[k].watcher_id)) = 1
                /\ \A m \in ReportsBy(watchers[k].watcher_id) :
                      LET r == new_reports_this_step'[m]
                      IN /\ StartsWithFake(r.event_id)
                         /\ r.event_id \notin SeenIds \cup PendingIds \cup finalized_events
                         /\ r.event_id \notin StoredIds
                         /\ \A n \in DOMAIN new_reports_this_step' :
                               new_reports_this_step'[n].event_id = r.event_id => n = m
                         /\ r.source_chain_id
                               = blockchains[watchers[k].monitored_chain].chain_id
                         /\ r.source_chain_id = watchers[k].monitored_chain
                /\ watchers'[k] = watchers[k]
                /\ watchers[k].seen_event_ids = {}
C22_MaliciousWatcher == [][C22_MaliciousStep]_vars

\* one malicious Watcher after two steps: two fabricated ids
C22_Witness ==
    /\ step_num = 2
    /\ \E k \in DOMAIN watchers : watchers[k].is_malicious
    /\ Cardinality({e \in SeenIds : StartsWithFake(e)}) = 2
    /\ Len(new_reports_this_step) = 1

\* C23: the first-seen step of an id is set once, to the step in which the id is
\* first reported, and never changes; fabricated_events_reported is the number of
\* distinct fraud-marked ids in the first-seen table.
C23_FabricatedCount ==
    stats.fabricated_events_reported = Cardinality({e \in SeenIds : StartsWithFake(e)})
C23_FirstSeenStep ==
    /\ \A e \in SeenIds :
          /\ e \in DOMAIN event_first_reported_step'
          /\ event_first_reported_step'[e] = event_first_reported_step[e]
    /\ StepTaken =>
          /\ \A m \in DOMAIN new_reports_this_step' :
                new_reports_this_step'[m].event_id \in DOMAIN event_first_reported_step'
          /\ \A e \in NewlySeen :
                /\ event_first_reported_step'[e] = step_num'
                /\ \E m \in DOMAIN new_reports_this_step' :
                      new_reports_this_step'[m].event_id = e
          /\ stats'.fabricated_events_reported = stats.fabricated_events_reported
                + Cardinality({e \in NewlySeen : StartsWithFake(e)})
    /\ ~StepTaken => event_first_reported_step' = event_first_reported_step
C23_FirstSeenOnce == [](C23_FabricatedCount) /\ [][C23_FirstSeenStep]_vars

\* fabricated ids first seen in the first and in the second step, both counted
C23_Witness ==
    /\ stats.fabricated_events_reported = 2
    /\ \E e \in SeenIds : StartsWithFake(e) /\ event_first_reported_step[e] = 1
    /\ \E e \in SeenIds : StartsWithFake(e) /\ event_first_reported_step[e] = 2

\* C24: a finalization adds one to exactly one of valid_events_finalized and
\* fabricated_events_finalized; attack_impact_value grows exactly when
\* fabricated_events_finalized does, by the amount in the payload of the first
\* report, an absent amount counting as 0; a finalization counted as valid leaves
\* attack_impact_value as it was; no other counter changes.
C24_CountStep ==
    (call' # call /\ call'.op = "count_finalized") =>
        LET data == call'.reports_for_event[1].data
            amount == IF "amount" \in DOMAIN data THEN data.amount ELSE 0
            valid == stats'.valid_events_finalized - stats.valid_events_finalized
            fabricated == stats'.fabricated_events_finalized
                              - stats.fabricated_events_finalized
            impact == stats'.attack_impact_value - stats.attack_impact_value
        IN /\ (valid = 1 /\ fabricated = 0) \/ (valid = 0 /\ fabricated = 1)
           /\ fabricated = 1 => impact = amount
           /\ valid = 1 => impact = 0
           /\ stats'.valid_events_created = stats.valid_events_created
           /\ stats'.fabricated_events_reported = stats.fabricated_events_reported
C24_FinalizationCounters == [][C24_CountStep]_vars

\* a fraud-marked id whose first report has no amount was counted
C24_Witness ==
    /\ pc = "called"
    /\ call.op = "count_finalized"
    /\ StartsWithFake(call.reports_for_event[1].event_id)
    /\ "amount" \notin DOMAIN call.reports_for_event[1].data
    /\ Len(call.reports_for_event) = 2
    /\ "amount" \in DOMAIN call.reports_for_event[2].data
    /\ stats.fabricated_events_finalized = 1
    /\ stats.attack_impact_value = 0

\* ---- one step under another evaluation order
\* all orders of the indices of a list
ListOrders(seq) == Orders(DOMAIN seq)
\* the uuid4 value the list-order evaluation gives a malicious Watcher: kept for
\* that Watcher under every order
UuidOf(k) == uuid_count + Cardinality({m \in 1..k : watchers[m].is_malicious})
\* "for watcher in self.watchers" taken in the order wperm
RECURSIVE ReportsInOrder(_, _, _)
ReportsInOrder(wperm, orders, amounts) ==
    IF wperm = <<>> THEN <<>>
    ELSE LET k == Head(wperm)
         IN monitor_and_report(watchers[k], blockchains, orders[k], UuidOf(k),
                               amounts[k]).reports
            \o ReportsInOrder(Tail(wperm), orders, amounts)
\* how often each value occurs in a list
Multiset(seq) ==
    [v \in Range(seq) |-> Cardinality({k \in DOMAIN seq : seq[k] = v})]
\* phase 1 of run_simulation_step(step) from the present state, Watchers taken in
\* the order wperm
CollatedIn(step, wperm, orders, amounts) ==
    Collate(ReportsInOrder(wperm, orders, amounts), step,
            [pending_reports |-> pending_reports,
             event_first_reported_step |-> event_first_reported_step,
             fabricated_events_reported |-> stats.fabricated_events_reported],
            finalized_events, processed_event_ids)
\* the Guard list in the order gperm, and the coins of the (Guard, id) pairs
\* keyed by the place of the Guard in that list
GuardsIn(gperm) == [k \in DOMAIN guards |-> guards[gperm[k]]]
CoinsIn(gperm, rnd) ==
    [p \in {q \in (DOMAIN guards) \X {d[2] : d \in DOMAIN rnd} :
                <<gperm[q[1]], q[2]>> \in DOMAIN rnd} |->
        rnd[<<gperm[p[1]], p[2]>>]]
\* phase 2 after phase 1 gave collated, Guards taken in the order of gs
VerifiedIn(collated, gs, coins) ==
    VerifyAll(collated.pending_reports.keys, collated.pending_reports,
              finalized_events, gs, blockchains,
              [processed_event_ids |-> processed_event_ids,
               guard_signatures |-> guard_signatures,
               verify_calls |-> <<>>],
              coins)
\* phase 3 after phases 1 and 2
FinalizedIn(step, collated, p2) ==
    FinalizeAll(p2.guard_signatures.keys, p2.guard_signatures,
                collated.pending_reports, blockchains, guard_threshold, step,
                collated.event_first_reported_step,
                [finalized_events |-> finalized_events,
                 newly_finalized_ids |-> <<>>,
                 confirmation_latencies |-> confirmation_latencies,
                 stats |-> [stats EXCEPT !.fabricated_events_reported =
                               collated.fabricated_events_reported]])
\* the finalized set, the latencies and the counters that phase 3 gave
OutcomeOf(p3) ==
    [finalized_events |-> p3.finalized_events,
     latencies |-> Multiset(p3.confirmation_latencies),
     stats |-> p3.stats]
\* the outcomes of phases 2 and 3 of run_simulation_step(step) after phase 1 gave
\* collated, Guards taken in the order gperm: a set of one element
OutcomeFrom(step, collated, gperm, rnd) ==
    UNION {UNION {UNION {{OutcomeOf(p3) :
        p3 \in {FinalizedIn(step, collated, p2)}} :
        p2 \in {VerifiedIn(collated, gs, coins)}} :
        coins \in {CoinsIn(gperm, rnd)}} :
        gs \in {GuardsIn(gperm)}}
\* the (Guard, id) pairs that draw a coin in the next step
NextDraws(orders, amounts) ==
    UNION {{RandomDraws(collated.pending_reports, finalized_events, processed_event_ids,
                        guard_signatures, guards, blockchains)} :
           collated \in {CollatedIn(step_num + 1, [k \in DOMAIN watchers |-> k],
                                    orders, amounts)}}

\* C25: for fixed coins per (Guard, id) pair and fixed fabricated ids and amounts,
\* the finalized set, the multiset of latencies and every counter after a step
\* are the same whatever the order in which the Watchers report and whatever the
\* order in which the Guards verify.
C25_SameOutcome ==
    (/\ pc = "ready"
     /\ step_num < MaxSteps
     /\ uuid_count + Cardinality({k \in DOMAIN watchers : watchers[k].is_malicious})
           <= MaxEvents
     /\ Len(watchers) > 1 \/ Len(guards) > 1) =>
        \A orders \in WatcherOrders, amounts \in WatcherAmounts :
          \A draws \in NextDraws(orders, amounts) :
            \A inList \in {CollatedIn(step_num + 1, [k \in DOMAIN watchers |-> k],
                                      orders, amounts)} :
              \A wperm \in ListOrders(watchers) :
                \A collated \in {CollatedIn(step_num + 1, wperm, orders, amounts)} :
                  \A rnd \in [draws -> RandomValues] :
                    \A listed \in {OutcomeFrom(step_num + 1, inList,
                                                [k \in DOMAIN guards |-> k], rnd)} :
                      \A gperm \in ListOrders(guards) :
                        OutcomeFrom(step_num + 1, collated, gperm, rnd) = listed
C25_OrderIndependent == [](C25_SameOutcome)

\* two Watchers of one chain and a Guard, before a step in which both report an event
C25_Witness ==
    /\ pc = "ready"
    /\ step_num = 1
    /\ Len(guards) = 1
    /\ Len(watchers) = 2
    /\ \A k \in DOMAIN watchers :
          /\ ~watchers[k].is_malicious
          /\ NewEventIds(watchers[k], blockchains) # {}
    /\ watchers[1].monitored_chain = watchers[2].monitored_chain

\* the ids first reported in the step in progress
FirstSeenThisStep == {e \in SeenIds : event_first_reported_step[e] = step_num}

\* C26: phase barrier. When the report phase of a step is over and before any
\* verification of that step, every report of the step is in the pending buffer
\* under its id and no Guard has been asked about an id first reported in the
\* step; when the verification phase is over and before any vote is counted,
\* every pending id that is not finalized has been processed and carries a vote
\* of every Guard, and no id first reported in the step is finalized yet.
C26_PhaseBarrier ==
    /\ pc = "reported" =>
          /\ \A k \in DOMAIN new_reports_this_step :
                \E r \in {new_reports_this_step[k]} :
                   /\ r.event_id \in PendingIds
                   /\ r \in Range(pending_reports.val[r.event_id])
          /\ verify_calls = <<>>
          /\ \A e \in FirstSeenThisStep :
                /\ e \notin processed_event_ids
                /\ e \notin SignedIds
                /\ e \notin finalized_events
    /\ pc = "verified" =>
          /\ \A e \in PendingIds \ finalized_events :
                /\ e \in processed_event_ids
                /\ guards # <<>> =>
                      /\ e \in SignedIds
                      /\ DOMAIN guard_signatures.val[e] = GuardIds
          /\ \A e \in FirstSeenThisStep : e \notin finalized_events

C26_Witness ==
    /\ pc = "verified"
    /\ Len(guards) >= 2
    /\ Len(new_reports_this_step) >= 2
    /\ Cardinality(FirstSeenThisStep \cap SignedIds) >= 2

\* the (chain, id) pairs of the events the Ledgers in chains hold
StoredEvents(chains) ==
    UNION {{<<c, e>> : e \in DOMAIN chains[c].events} : c \in DOMAIN chains}
\* every id the simulation has met
KnownIds == StoredIds \cup SeenIds \cup PendingIds \cup {<<"", 0>>}

\* C27: run_simulation_step leaves every Ledger and valid_events_created as they
\* were; an event held by a Ledger is held unchanged ever after; a Ledger gets a
\* new event only as the one event that add_event stores on it; and get_event
\* on an id the Ledger does not hold gives None.
C27_LedgerStep ==
    /\ StepTaken =>
          /\ blockchains' = blockchains
          /\ stats'.valid_events_created = stats.valid_events_created
    /\ \A p \in StoredEvents(blockchains) :
          /\ p \in StoredEvents(blockchains')
          /\ blockchains'[p[1]].events[p[2]] = blockchains[p[1]].events[p[2]]
    /\ StoredEvents(blockchains') # StoredEvents(blockchains) =>
          \E source \in DOMAIN blockchains, target \in AllChainIds, data \in CallerData :
             blockchains' = [blockchains EXCEPT ![source] =
                                add_event(blockchains[source], uuid_count + 1,
                                          target, data).chain]
C27_GetMissing ==
    \A c \in DOMAIN blockchains :
        \A e \in KnownIds \ DOMAIN blockchains[c].events :
            get_event(blockchains[c], e) = "None"
C27_LedgerIntegrity == [](C27_GetMissing) /\ [][C27_LedgerStep]_vars

\* an event is stored, and in the last step a Guard looked up an id that the
\* Ledger of the report does not hold
C27_Witness ==
    /\ step_num >= 1
    /\ StoredIds # {}
    /\ \E k \in DOMAIN verify_calls :
          \E r \in {verify_calls[k].reported_event} :
             /\ r.source_chain_id \in DOMAIN blockchains
             /\ r.event_id \notin DOMAIN blockchains[r.source_chain_id].events

\* C28: every recorded latency is 0. In the step in which an id is first reported
\* it is processed and every Guard votes on it; a vote once cast never changes;
\* and an id is finalized in the step in which it is first reported or never.
C28_AllZero == \A k \in DOMAIN confirmation_latencies : confirmation_latencies[k] = 0
C28_VerifiedAtOnce ==
    StepTaken =>
        /\ \A e \in NewlySeen :
              /\ e \in processed_event_ids'
              /\ guards # <<>> =>
                    /\ e \in DOMAIN guard_signatures'.val
                    /\ DOMAIN guard_signatures'.val[e] = GuardIds
        /\ \A e \in SignedIds :
              /\ e \in DOMAIN guard_signatures'.val
              /\ guard_signatures'.val[e] = guard_signatures.val[e]
        /\ NewlyFinalized \subseteq NewlySeen
        /\ \A e \in NewlyFinalized : event_first_reported_step'[e] = step_num'
C28_ZeroLatency == [](C28_AllZero) /\ [][C28_VerifiedAtOnce]_vars

\* after two steps: an id finalized in the second step, and an id of the first
\* step that was denied and is still pending
C28_Witness ==
    /\ step_num = 2
    /\ confirmation_latencies # <<>>
    /\ \E e \in finalized_events : event_first_reported_step[e] = 2
    /\ \E e \in PendingIds \cap SignedIds : event_first_reported_step[e] = 1

UnmarkedIds(S) == {e \in S : ~StartsWithFake(e)}

\* C29: whatever the Guards and the Ledgers have become, no Guard, honest or
\* malicious, votes True on a report without the fraud marker that the Ledger of
\* its source chain does not back with the same id and payload; every id without the marker that a step finalizes was reported with
\* the payload its Ledger stores and is counted in valid_events_finalized, and
\* fabricated_events_finalized counts the fraud-marked finalized ids only.
C29_NoVoteUnbacked ==
    \A k \in DOMAIN guards, r \in CallReports :
        (~StartsWithFake(r.event_id) /\ ~BackedByLedger(r)) =>
            \A rnd \in RandomValues : verify_event(guards[k], blockchains, r, rnd) # "True"
C29_Counted ==
    /\ stats.valid_events_finalized = Cardinality(UnmarkedIds(finalized_events))
    /\ stats.fabricated_events_finalized =
          Cardinality(finalized_events \ UnmarkedIds(finalized_events))
C29_Step ==
    /\ (guards' # guards \/ blockchains' # blockchains) => C29_NoVoteUnbacked'
    /\ StepTaken =>
        /\ \A e \in UnmarkedIds(NewlyFinalized) : BackedByLedger(FirstReportOf(e))
        /\ stats'.valid_events_finalized =
              stats.valid_events_finalized + Cardinality(UnmarkedIds(NewlyFinalized))
        /\ stats'.fabricated_events_finalized =
              stats.fabricated_events_finalized
                  + Cardinality(NewlyFinalized \ UnmarkedIds(NewlyFinalized))
C29_UnmarkedFinalizedBacked ==
    C29_NoVoteUnbacked /\ [](C29_Counted) /\ [][C29_Step]_vars

\* an honest and a malicious Guard together finalized a stored event
C29_Witness ==
    /\ MaliciousGuards > 0
    /\ HonestGuards > 0
    /\ UnmarkedIds(finalized_events) # {}
    /\ stats.valid_events_finalized = 1
    /\ stats.fabricated_events_finalized = 0

\* the ids the step just taken finalized and counted in fabricated_events_finalized
NewlyCountedFabricated ==
    {e \in NewlyFinalized : StartsWithFake(e) \/ ~BackedByLedger(FirstReportOf(e))}

\* C30: counter conservation. The number of finalized ids is the sum of
\* valid_events_finalized and fabricated_events_finalized and the number of
\* recorded latencies; attack_impact_value starts at 0, grows in a step by the
\* sum of the first-report amounts of the ids that the step counts in
\* fabricated_events_finalized, and changes in no other way.
C30_Conserved ==
    /\ Cardinality(finalized_events)
          = stats.valid_events_finalized + stats.fabricated_events_finalized
    /\ Cardinality(finalized_events) = Len(confirmation_latencies)
    /\ stats.fabricated_events_finalized = 0 => stats.attack_impact_value = 0
C30_ImpactStep ==
    IF StepTaken
    THEN /\ stats'.attack_impact_value
               = stats.attack_impact_value + SumAmounts(NewlyCountedFabricated)
         /\ stats'.fabricated_events_finalized
               = stats.fabricated_events_finalized + Cardinality(NewlyCountedFabricated)
    ELSE /\ stats'.attack_impact_value = stats.attack_impact_value
         /\ finalized_events' = finalized_events
         /\ confirmation_latencies' = confirmation_latencies
C30_CounterConservation == [](C30_Conserved) /\ [][C30_ImpactStep]_vars

\* two fabricated ids of different amounts were finalized, one in each of two steps
C30_Witness ==
    /\ step_num = 2
    /\ stats.fabricated_events_finalized = 2
    /\ Len(confirmation_latencies) = 2
    /\ stats.attack_impact_value = 5500

\* C31: no more fabricated ids are finalized than were reported and no more valid
\* events are finalized than were created; so the two differences that
\* report_results prints are never negative and the false-acceptance rate it
\* prints, in hundredths of a percent, is at most 100 %.
C31_FinalizedWithinReported ==
    /\ stats.fabricated_events_finalized <= stats.fabricated_events_reported
    /\ stats.valid_events_finalized <= stats.valid_events_created
    /\ \A r \in {report_results(stats, confirmation_latencies)} :
          /\ r.correctly_rejected_fraudulent >= 0
          /\ r.false_positives >= 0
          /\ r.false_acceptance_rate.text = "rate" =>
                r.false_acceptance_rate.rate <= 100 * 100

\* after a step: the one fabricated id reported was finalized, and the one valid
\* event created was not
C31_Witness ==
    /\ step_num >= 1
    /\ stats.fabricated_events_reported = 1
    /\ stats.fabricated_events_finalized = 1
    /\ stats.valid_events_created = 1
    /\ stats.valid_events_finalized = 0

====
